---- MODULE Spec2Model ----
(***************************************************************************)
(* A state-machine model of the RBM class of RBF_note.ipynb: construction, *)
(* train (CD-1), run_visible, run_hidden and daydream (Spec, FairSpec),    *)
(* and of the notebook's from-scratch training cell run beside train       *)
(* (ScratchSpec).                                                          *)
(*                                                                         *)
(* Numbers.  A float is modelled as a fixed-point number with Scale units  *)
(* per 1.0, or as NaN.  A finite float of fixed-point value v is the tuple *)
(* <<v>>, NaN is the empty tuple, so that the two can be compared.         *)
(* Integer and boolean arrays of the code (0/1 data, comparison results)   *)
(* are held in the same representation: 0 is F(0), 1 and True are F(Scale).*)
(* Arrays are records [shape |-> <<rows, cols>>, val |-> function], with   *)
(* the 0-based indices of the code.                                        *)
(***************************************************************************)
EXTENDS Integers, Sequences, FiniteSets, TLC

\* ---------------------------------------------------------------- bounds
\* Fixed-point resolution: units per 1.0.
Scale == 8
\* Largest num_visible a constructor call is given.
MaxVisible == 2
\* Largest num_hidden a constructor call is given.
MaxHidden == 1
\* Largest number of rows (examples) of an array passed by the caller.
MaxExamples == 2
\* Largest max_epochs given to train.
MaxEpochs == 2
\* Cap on the work trained into one model: examples presented, summed over
\* the epochs (an epoch on an empty array and a zero-epoch call count 1).
MaxWork == 2
\* Largest num_samples given to daydream.
MaxSamples == 3
\* Largest number of cells (examples times visible units) of the array the
\* from-scratch cell is run on.
MaxCells == 2

\* ------------------------------------------------------- program constants
\* np.random.RandomState(1234)
Seed == 1234

\* ---------------------------------------------------------------- floats
NaN == <<>>
F(v) == <<v>>
IsNaN(x) == x = NaN
Zero == F(0)
One == F(Scale)

\* a / b rounded to the nearest integer, b > 0 (halves round up).
RDiv(a, b) == (2 * a + b) \div (2 * b)

fadd(x, y) == IF IsNaN(x) \/ IsNaN(y) THEN NaN ELSE F(x[1] + y[1])
fsub(x, y) == IF IsNaN(x) \/ IsNaN(y) THEN NaN ELSE F(x[1] - y[1])
fmul(x, y) == IF IsNaN(x) \/ IsNaN(y) THEN NaN ELSE F(RDiv(x[1] * y[1], Scale))
\* x / n for an integer count n.  The only division of the code is by
\* num_examples, which is 0 only when the numerator is a matrix of zeros:
\* 0.0 / 0 is nan (with a RuntimeWarning, no exception).
fdiv(x, n) == IF IsNaN(x) \/ n = 0 THEN NaN ELSE F(RDiv(x[1], n))
\* x > y: every comparison with nan is False.
fgt(x, y) == ~IsNaN(x) /\ ~IsNaN(y) /\ x[1] > y[1]
\* A boolean stored into (or multiplied as) a number.
OfBool(b) == IF b THEN One ELSE Zero

RECURSIVE Pow2(_)
Pow2(q) == IF q <= 0 THEN 1 ELSE 2 * Pow2(q - 1)

\* np.exp on fixed point, as 2^t interpolated linearly between the integer
\* exponents: positive, increasing, 1.0 at 0, underflowing to 0.
np_exp(t) ==
  LET q == t \div Scale
      m == Scale + (t % Scale)
  IN  IF q >= 0 THEN m * Pow2(q) ELSE RDiv(m, Pow2(0 - q))

\* def _logistic(self, x): return 1.0 / (1 + np.exp(-x))
logistic(x) ==
  IF IsNaN(x) THEN NaN ELSE F(RDiv(Scale * Scale, Scale + np_exp(0 - x[1])))

RECURSIVE ISqrt(_, _)
\* The largest r >= from with r * r <= x.
ISqrt(x, from) == IF (from + 1) * (from + 1) > x THEN from ELSE ISqrt(x, from + 1)

\* np.sqrt on a non-negative fixed-point ratio num/den, to the nearest unit.
np_sqrt(num, den) == RDiv(ISqrt((4 * Scale * Scale * num) \div den, 0), 2)

\* ---------------------------------------------------------------- arrays
Rows(a) == a.shape[1]
Cols(a) == a.shape[2]
Idx(n, m) == (0 .. n - 1) \X (0 .. m - 1)
\* The array of shape (n, m) whose cells are the values of cell.
Mat(n, m, cell) == [shape |-> <<n, m>>, val |-> [ij \in Idx(n, m) |-> cell[ij]]]
At(a, i, j) == a.val[<<i, j>>]

\* np.ones((n, m))
np_ones(n, m) ==
  LET c(i, j) == One
  IN  Mat(n, m,
          [ij \in Idx(n, m) |-> c(ij[1], ij[2])])

\* The row of v appended after the last row instead.
np_insert_row_mut(a, v) ==
  LET c(i, j) == IF i = Rows(a) THEN v ELSE At(a, i, j)
  IN  Mat(Rows(a) + 1, Cols(a),
          [ij \in Idx(Rows(a) + 1, Cols(a)) |-> c(ij[1], ij[2])])
\* np.insert(a, 0, v, axis = 0): a new array with a row of v before row 0.
np_insert_row(a, v) ==
  LET c(i, j) == IF i = 0 THEN v ELSE At(a, i - 1, j)
  IN  Mat(Rows(a) + 1, Cols(a),
          [ij \in Idx(Rows(a) + 1, Cols(a)) |-> c(ij[1], ij[2])])

\* np.insert(a, 0, v, axis = 1): a new array with a column of v before column 0.
np_insert_col(a, v) ==
  LET c(i, j) == IF j = 0 THEN v ELSE At(a, i, j - 1)
  IN  Mat(Rows(a), Cols(a) + 1,
          [ij \in Idx(Rows(a), Cols(a) + 1) |-> c(ij[1], ij[2])])

\* a.T
Transpose(a) ==
  LET c(i, j) == At(a, j, i)
  IN  Mat(Cols(a), Rows(a),
          [ij \in Idx(Cols(a), Rows(a)) |-> c(ij[1], ij[2])])

RECURSIVE DotSum(_, _, _, _, _)
\* sum over k' < k of a[i, k'] * b[k', j]
DotSum(a, b, i, j, k) ==
  IF k = 0 THEN Zero
  ELSE fadd(DotSum(a, b, i, j, k - 1), fmul(At(a, i, k - 1), At(b, k - 1, j)))

\* np.dot(a, b) raises ValueError unless the inner dimensions agree.
DotOK(a, b) == Cols(a) = Rows(b)
\* np.dot(a, b) for 2-D a and b with DotOK(a, b).
np_dot(a, b) ==
  LET c(i, j) == DotSum(a, b, i, j, Cols(a))
  IN  Mat(Rows(a), Cols(b),
          [ij \in Idx(Rows(a), Cols(b)) |-> c(ij[1], ij[2])])

\* The elementwise self._logistic(a).
Logistic(a) ==
  LET c(i, j) == logistic(At(a, i, j))
  IN  Mat(Rows(a), Cols(a),
          [ij \in Idx(Rows(a), Cols(a)) |-> c(ij[1], ij[2])])

\* The assignment left out: the array as it was.
SetCol0_mut(a, v) == a
\* a[:, 0] = v (on a copy: the model's arrays are values).
SetCol0(a, v) ==
  LET c(i, j) == IF j = 0 THEN v ELSE At(a, i, j)
  IN  Mat(Rows(a), Cols(a),
          [ij \in Idx(Rows(a), Cols(a)) |-> c(ij[1], ij[2])])

\* a[:, 1:]
DropCol0(a) ==
  LET c(i, j) == At(a, i, j + 1)
  IN  Mat(Rows(a), Cols(a) - 1,
          [ij \in Idx(Rows(a), Cols(a) - 1) |-> c(ij[1], ij[2])])

\* probs > draws, elementwise, stored as 0/1.
Sample(probs, draws) ==
  LET c(i, j) == OfBool(fgt(At(probs, i, j), At(draws, i, j)))
  IN  Mat(Rows(probs), Cols(probs),
          [ij \in Idx(Rows(probs), Cols(probs)) |-> c(ij[1], ij[2])])

\* The values np.random.rand returns, on the fixed-point grid: the smallest
\* and the largest value of [0, 1).  For every p the outcomes of p > draw
\* over the whole grid are those over these two.
Draws == {F(0), F(Scale - 1)}
\* Every outcome of np.random.rand(n, m).
Rand(n, m) == {[shape |-> <<n, m>>, val |-> f] : f \in [Idx(n, m) -> Draws]}

Binary == {Zero, One}
\* Every 0/1 array of shape (n, m).
BinaryArrays(n, m) == {[shape |-> <<n, m>>, val |-> f] : f \in [Idx(n, m) -> Binary]}

\* ------------------------------------------------------------ construction
\* The k-th value of the stream of np.random.RandomState(seed), in units of
\* 1/Scale: a fixed function of the seed and the position, in [0, 1).
RandomState_random(seed, k) == (seed \div 2 + 3 * k) % Scale

\* 0.1 * np.sqrt(6. / (num_hidden + num_visible)), for num_hidden + num_visible > 0
InitHigh(nv, nh) == np_sqrt(6, 100 * (nh + nv))

\* np_rng.uniform(low = -high, high = high, size = (nv, nh)): low + (high - low) * u
RBM_uniform(nv, nh) ==
  LET high == InitHigh(nv, nh)
      c(i, j) == F((0 - high) + RDiv(2 * high * RandomState_random(Seed, i * nh + j), Scale))
  IN  Mat(nv, nh, [ij \in Idx(nv, nh) |-> c(ij[1], ij[2])])

\* How RBM(num_visible = nv, num_hidden = nh) ends: 6. / 0 raises
\* ZeroDivisionError; for a negative sum np.sqrt gives nan and uniform
\* rejects the nan range (OverflowError); a negative size raises ValueError.
\* A size of 0 is accepted: uniform returns an empty array.
RBM_init_outcome(nv, nh) ==
  IF nv + nh = 0 THEN "ZeroDivisionError"
  ELSE IF nv + nh < 0 THEN "OverflowError"
  ELSE IF nv < 0 \/ nh < 0 THEN "ValueError"
  ELSE "ok"

\* self.weights after __init__.
RBM_init_weights(nv, nh) ==
  np_insert_col(np_insert_row(RBM_uniform(nv, nh), Zero), Zero)

\* ------------------------------------------------------------------ state
VARIABLES
  num_visible,  \* self.num_visible
  num_hidden,   \* self.num_hidden
  weights,      \* self.weights
  frame,        \* the locals and the position of the call in progress
  arg,          \* the caller's array object handed to the last call
  ret,          \* what the last call returned
  raised,       \* the exception the last call ended in, or "none"
  trained,      \* work charged to this model so far
  called,       \* the last call and the values of its arguments (history)
  np_random     \* values taken from the global stream np.random by the
                \* last call that draws from it

vars ==
  <<num_visible, num_hidden, weights, frame, arg, ret, raised, trained, called,
    np_random>>
self == <<num_visible, num_hidden, weights>>

\* Between two calls, nothing of the last call kept.
Idle == [op |-> "idle"]
\* A call has ended: its outcome is in arg, ret and raised.
Ended == [op |-> "ended"]
NoCall == [op |-> "none"]
NoArray == [kind |-> "none"]
Array(a) == [kind |-> "array", a |-> a]
None == [kind |-> "None"]
\* No value reaches the caller: the call is running or ended in an exception.
NoValue == [kind |-> "nothing"]

VisibleCounts == 0 .. MaxVisible
HiddenCounts == 0 .. MaxHidden

Init ==
  /\ \E nv \in VisibleCounts, nh \in HiddenCounts :
       /\ RBM_init_outcome(nv, nh) = "ok"
       /\ num_visible = nv
       /\ num_hidden = nh
       /\ weights = RBM_init_weights(nv, nh)
  /\ frame = Ended
  /\ arg = NoArray
  /\ ret = NoValue
  /\ raised = "none"
  /\ trained = 0
  /\ called = [op |-> "RBM", num_visible |-> num_visible, num_hidden |-> num_hidden]
  /\ np_random = 0

\* The initial weights taken from the global stream np.random instead.
Construct_mut(nv, nh) ==
  /\ frame = Idle
  /\ arg' = NoArray
  /\ ret' = NoValue
  /\ frame' = Ended
  /\ called' = [op |-> "RBM", num_visible |-> nv, num_hidden |-> nh]
  /\ raised' = IF RBM_init_outcome(nv, nh) = "ok" THEN "none" ELSE RBM_init_outcome(nv, nh)
  /\ IF RBM_init_outcome(nv, nh) = "ok"
     THEN /\ num_visible' = nv
          /\ num_hidden' = nh
          /\ \E W \in Rand(nv, nh) :
               weights' = np_insert_col(np_insert_row(W, Zero), Zero)
          /\ trained' = 0
          /\ np_random' = np_random + nv * nh
     ELSE UNCHANGED <<self, trained, np_random>>

\* r = RBM(num_visible = nv, num_hidden = nh)
Construct(nv, nh) ==
  /\ frame = Idle
  /\ arg' = NoArray
  /\ ret' = NoValue
  /\ frame' = Ended
  /\ called' = [op |-> "RBM", num_visible |-> nv, num_hidden |-> nh]
  /\ raised' = IF RBM_init_outcome(nv, nh) = "ok" THEN "none" ELSE RBM_init_outcome(nv, nh)
  /\ IF RBM_init_outcome(nv, nh) = "ok"
     THEN /\ num_visible' = nv
          /\ num_hidden' = nh
          /\ weights' = RBM_init_weights(nv, nh)
          /\ trained' = 0
     ELSE UNCHANGED <<self, trained>>
  /\ UNCHANGED np_random

\* The arrays a caller passes: 0/1 arrays of up to MaxExamples rows.
Inputs == UNION {BinaryArrays(n, m) : n \in 0 .. MaxExamples, m \in VisibleCounts}

\* The learning rates a caller passes.
LearningRates == {Zero, One}

\* The bias written into the first column of the array that was passed.
InsertBias_mut(data) == [caller |-> SetCol0(data, One), local |-> np_insert_col(data, One)]
\* data = np.insert(data, 0, 1, axis = 1): np.insert builds a new array, so
\* the name data is rebound to it (local) and the array object the caller
\* passed (caller) is left as it was.
InsertBias(data) == [caller |-> data, local |-> np_insert_col(data, One)]

\* ------------------------------------------------------------------ train
\* The update computed for the weights without their bias column.
Updated_mut(a, d, learning_rate, num_examples) ==
  LET c(i, j) == fadd(At(a, i, j + 1), fmul(learning_rate, fdiv(At(d, i, j + 1), num_examples)))
  IN  Mat(Rows(a), Cols(a) - 1,
          [ij \in Idx(Rows(a), Cols(a) - 1) |-> c(ij[1], ij[2])])
\* a + learning_rate * (d / num_examples), elementwise
Updated(a, d, learning_rate, num_examples) ==
  LET c(i, j) == fadd(At(a, i, j), fmul(learning_rate, fdiv(At(d, i, j), num_examples)))
  IN  Mat(Rows(a), Cols(a),
          [ij \in Idx(Rows(a), Cols(a)) |-> c(ij[1], ij[2])])

\* a - b, elementwise
Minus(a, b) ==
  LET c(i, j) == fsub(At(a, i, j), At(b, i, j))
  IN  Mat(Rows(a), Cols(a),
          [ij \in Idx(Rows(a), Cols(a)) |-> c(ij[1], ij[2])])

\* The positive associations taken from the sampled states, not the
\* probabilities.
Epoch_mut(data, w, learning_rate, num_examples, draws) ==
  LET pos_hidden_probs == SetCol0(Logistic(np_dot(data, w)), One)
      pos_hidden_states == Sample(pos_hidden_probs, draws)
      pos_associations == np_dot(Transpose(data), pos_hidden_states)
      neg_visible_probs == SetCol0(Logistic(np_dot(pos_hidden_states, Transpose(w))), One)
      neg_hidden_probs == Logistic(np_dot(neg_visible_probs, w))
      neg_associations == np_dot(Transpose(neg_visible_probs), neg_hidden_probs)
  IN  [pos_hidden_states |-> pos_hidden_states,
       neg_visible_probs |-> neg_visible_probs,
       weights |-> Updated(w, Minus(pos_associations, neg_associations),
                           learning_rate, num_examples)]

\* One iteration of the loop of train, for DotOK(data, w): the names are the
\* locals of the loop body, weights is self.weights after line 140.
Epoch(data, w, learning_rate, num_examples, draws) ==
  LET pos_hidden_activations == np_dot(data, w)
      pos_hidden_probs == SetCol0(Logistic(pos_hidden_activations), One)
      pos_hidden_states == Sample(pos_hidden_probs, draws)
      pos_associations == np_dot(Transpose(data), pos_hidden_probs)
      neg_visible_activations == np_dot(pos_hidden_states, Transpose(w))
      neg_visible_probs == SetCol0(Logistic(neg_visible_activations), One)
      neg_hidden_activations == np_dot(neg_visible_probs, w)
      neg_hidden_probs == Logistic(neg_hidden_activations)
      neg_associations == np_dot(Transpose(neg_visible_probs), neg_hidden_probs)
  IN  [pos_hidden_states |-> pos_hidden_states,
       neg_visible_probs |-> neg_visible_probs,
       weights |-> Updated(w, Minus(pos_associations, neg_associations),
                           learning_rate, num_examples)]

\* The loop left one iteration early.
InRange_mut(done, max_epochs) == done + 1 < max_epochs
\* for epoch in range(max_epochs): another iteration follows `done` of them.
InRange(done, max_epochs) == done < max_epochs

\* The work a call of train is charged against MaxWork.
Charge(data, max_epochs) ==
  IF max_epochs = 0 THEN 1
  ELSE max_epochs * (IF Rows(data) = 0 THEN 1 ELSE Rows(data))

\* r.train(data, max_epochs, learning_rate), up to the loop.
TrainCall(data, max_epochs, learning_rate) ==
  /\ frame = Idle
  /\ trained + Charge(data, max_epochs) <= MaxWork
  /\ trained' = trained + Charge(data, max_epochs)
  /\ arg' = Array(InsertBias(data).caller)
  /\ ret' = NoValue
  /\ raised' = "none"
  /\ called' = [op |-> "train", data |-> data, max_epochs |-> max_epochs,
                learning_rate |-> learning_rate]
  /\ frame' = [op |-> "train",
               data |-> InsertBias(data).local,
               num_examples |-> Rows(data),
               max_epochs |-> max_epochs,
               learning_rate |-> learning_rate,
               epoch |-> 0,
               updates |-> 0,
               before |-> weights,
               pos_hidden_states |-> NoArray,
               neg_visible_probs |-> NoArray]
  /\ np_random' = 0
  /\ UNCHANGED self

\* One iteration of the loop; np.dot(data, self.weights) raises ValueError
\* when data has not num_visible + 1 columns, which ends the call.
TrainEpoch ==
  /\ frame.op = "train"
  /\ InRange(frame.epoch, frame.max_epochs)
  /\ IF DotOK(frame.data, weights)
     THEN \E draws \in Rand(frame.num_examples, num_hidden + 1) :
            LET e == Epoch(frame.data, weights, frame.learning_rate,
                           frame.num_examples, draws)
            IN  /\ weights' = e.weights
                /\ frame' = [frame EXCEPT !.epoch = @ + 1,
                                          !.updates = @ + 1,
                                          !.pos_hidden_states = Array(e.pos_hidden_states),
                                          !.neg_visible_probs = Array(e.neg_visible_probs)]
                /\ np_random' = np_random + frame.num_examples * (num_hidden + 1)
                /\ UNCHANGED <<raised, ret>>
     ELSE /\ raised' = "ValueError"
          /\ frame' = Ended
          /\ UNCHANGED <<weights, ret, np_random>>
  /\ UNCHANGED <<num_visible, num_hidden, arg, trained, called>>

\* The loop is over: train ends without a return statement.
TrainReturn ==
  /\ frame.op = "train"
  /\ ~InRange(frame.epoch, frame.max_epochs)
  /\ ret' = None
  /\ frame' = Ended
  /\ UNCHANGED <<self, arg, raised, trained, called, np_random>>

\* ------------------------------------------------- run_visible, run_hidden
\* target[:, :] = source: the values of source in the cells of target.
AssignAll(target, source) ==
  LET c(i, j) == At(source, i, j)
  IN  Mat(Rows(target), Cols(target),
          [ij \in Idx(Rows(target), Cols(target)) |-> c(ij[1], ij[2])])

\* The probabilities returned, not thresholded against the draws.
run_visible_mut(data, w, nh, draws) ==
  DropCol0(Logistic(np_dot(InsertBias(data).local, w)))
\* The value run_visible returns, for DotOK(InsertBias(data).local, w).
run_visible(data, w, nh, draws) ==
  LET num_examples == Rows(data)
      hidden_states == np_ones(num_examples, nh + 1)
      hidden_activations == np_dot(InsertBias(data).local, w)
      hidden_probs == Logistic(hidden_activations)
  IN  DropCol0(AssignAll(hidden_states, Sample(hidden_probs, draws)))

\* The bias column left in the returned array.
run_hidden_mut(data, w, nv, draws) ==
  Sample(Logistic(np_dot(InsertBias(data).local, Transpose(w))), draws)
\* The value run_hidden returns, for DotOK(InsertBias(data).local, Transpose(w)).
run_hidden(data, w, nv, draws) ==
  LET num_examples == Rows(data)
      visible_states == np_ones(num_examples, nv + 1)
      visible_activations == np_dot(InsertBias(data).local, Transpose(w))
      visible_probs == Logistic(visible_activations)
  IN  DropCol0(AssignAll(visible_states, Sample(visible_probs, draws)))

\* r.run_visible(data)
RunVisible(data) ==
  /\ frame = Idle
  /\ called' = [op |-> "run_visible", data |-> data]
  /\ arg' = Array(InsertBias(data).caller)
  /\ IF DotOK(InsertBias(data).local, weights)
     THEN /\ \E draws \in Rand(Rows(data), num_hidden + 1) :
               ret' = Array(run_visible(data, weights, num_hidden, draws))
          /\ raised' = "none"
          /\ np_random' = Rows(data) * (num_hidden + 1)
     ELSE /\ ret' = NoValue
          /\ raised' = "ValueError"
          /\ np_random' = 0
  /\ frame' = Ended
  /\ UNCHANGED <<self, trained>>

\* self.weights rebound to its transpose by the call.
RunHidden_mut(data) ==
  /\ frame = Idle
  /\ called' = [op |-> "run_hidden", data |-> data]
  /\ arg' = Array(InsertBias(data).caller)
  /\ IF DotOK(InsertBias(data).local, Transpose(weights))
     THEN /\ \E draws \in Rand(Rows(data), num_visible + 1) :
               ret' = Array(run_hidden(data, weights, num_visible, draws))
          /\ raised' = "none"
          /\ np_random' = Rows(data) * (num_visible + 1)
     ELSE /\ ret' = NoValue
          /\ raised' = "ValueError"
          /\ np_random' = 0
  /\ frame' = Ended
  /\ weights' = Transpose(weights)
  /\ UNCHANGED <<num_visible, num_hidden, trained>>

\* r.run_hidden(data)
RunHidden(data) ==
  /\ frame = Idle
  /\ called' = [op |-> "run_hidden", data |-> data]
  /\ arg' = Array(InsertBias(data).caller)
  /\ IF DotOK(InsertBias(data).local, Transpose(weights))
     THEN /\ \E draws \in Rand(Rows(data), num_visible + 1) :
               ret' = Array(run_hidden(data, weights, num_visible, draws))
          /\ raised' = "none"
          /\ np_random' = Rows(data) * (num_visible + 1)
     ELSE /\ ret' = NoValue
          /\ raised' = "ValueError"
          /\ np_random' = 0
  /\ frame' = Ended
  /\ UNCHANGED <<self, trained>>

\* --------------------------------------------------------------- daydream
\* a[i, :], as an array of one row (the code's 1-D arrays are modelled as
\* arrays of shape (1, m)).
Row(a, i) ==
  LET c(k, j) == At(a, i, j)
  IN  Mat(1, Cols(a),
          [ij \in Idx(1, Cols(a)) |-> c(ij[1], ij[2])])

\* a[i, :] = row
SetRow(a, i, row) ==
  LET c(k, j) == IF k = i THEN At(row, 0, j) ELSE At(a, k, j)
  IN  Mat(Rows(a), Cols(a),
          [ij \in Idx(Rows(a), Cols(a)) |-> c(ij[1], ij[2])])

\* a[0, 1:] = row
SetRow0Tail(a, row) ==
  LET c(k, j) == IF k = 0 /\ j >= 1 THEN At(row, 0, j - 1) ELSE At(a, k, j)
  IN  Mat(Rows(a), Cols(a),
          [ij \in Idx(Rows(a), Cols(a)) |-> c(ij[1], ij[2])])

\* samples[i, :] = visible_probs: the probabilities stored, not the states.
Gibbs_mut(samples, i, w, hidden_draws, visible_draws) ==
  LET visible == Row(samples, i - 1)
      hidden_states == SetCol0(Sample(Logistic(np_dot(visible, w)), hidden_draws), One)
      visible_probs == Logistic(np_dot(hidden_states, Transpose(w)))
  IN  [visible |-> visible, samples |-> SetRow(samples, i, visible_probs)]
\* Every step started again from row 0 instead of from its predecessor.
Gibbs_restart_mut(samples, i, w, hidden_draws, visible_draws) ==
  LET visible == Row(samples, 0)
      hidden_states == SetCol0(Sample(Logistic(np_dot(visible, w)), hidden_draws), One)
      visible_probs == Logistic(np_dot(hidden_states, Transpose(w)))
      visible_states == Sample(visible_probs, visible_draws)
  IN  [visible |-> visible, samples |-> SetRow(samples, i, visible_states)]
\* One iteration of the loop of daydream at index i: the visible vector it
\* reads and samples after samples[i, :] = visible_states.
Gibbs(samples, i, w, hidden_draws, visible_draws) ==
  LET visible == Row(samples, i - 1)
      hidden_activations == np_dot(visible, w)
      hidden_probs == Logistic(hidden_activations)
      hidden_states == SetCol0(Sample(hidden_probs, hidden_draws), One)
      visible_activations == np_dot(hidden_states, Transpose(w))
      visible_probs == Logistic(visible_activations)
      visible_states == Sample(visible_probs, visible_draws)
  IN  [visible |-> visible, samples |-> SetRow(samples, i, visible_states)]

\* r.daydream(num_samples), up to the loop; samples[0, 1:] = ... raises
\* IndexError when samples has no row.
DaydreamCall(num_samples) ==
  /\ frame = Idle
  /\ called' = [op |-> "daydream", num_samples |-> num_samples]
  /\ arg' = NoArray
  /\ ret' = NoValue
  /\ IF num_samples = 0
     THEN /\ raised' = "IndexError"
          /\ frame' = Ended
          /\ np_random' = 0
     ELSE /\ raised' = "none"
          /\ np_random' = num_visible
          /\ \E first \in Rand(1, num_visible) :
               frame' = [op |-> "daydream",
                         num_samples |-> num_samples,
                         samples |-> SetRow0Tail(np_ones(num_samples, num_visible + 1), first),
                         i |-> 1,
                         visible |-> NoArray]
  /\ UNCHANGED <<self, trained>>

\* One iteration of for i in range(1, num_samples).
DaydreamStep ==
  /\ frame.op = "daydream"
  /\ frame.i < frame.num_samples
  /\ \E hidden_draws \in Rand(1, num_hidden + 1), visible_draws \in Rand(1, num_visible + 1) :
       LET g == Gibbs(frame.samples, frame.i, weights, hidden_draws, visible_draws)
       IN  frame' = [frame EXCEPT !.samples = g.samples,
                                 !.i = @ + 1,
                                 !.visible = Array(g.visible)]
  /\ np_random' = np_random + (num_hidden + 1) + (num_visible + 1)
  /\ UNCHANGED <<self, arg, ret, raised, trained, called>>

\* return samples[:, 1:]
DaydreamReturn ==
  /\ frame.op = "daydream"
  /\ ~(frame.i < frame.num_samples)
  /\ ret' = Array(DropCol0(frame.samples))
  /\ frame' = Ended
  /\ UNCHANGED <<self, arg, raised, trained, called, np_random>>

\* The caller goes on: the values of the last call are dropped.
Discard ==
  /\ frame = Ended
  /\ frame' = Idle
  /\ called' = NoCall
  /\ arg' = NoArray
  /\ ret' = NoValue
  /\ raised' = "none"
  /\ UNCHANGED <<self, trained, np_random>>

\* ---------------------------------------------- the from-scratch notebook cells
\* def Energy(v, h, W): return np.dot(np.dot(v, W), h.T)
Energy(v, h, W) == np_dot(np_dot(v, W), Transpose(h))

RECURSIVE TermSum(_, _)
\* t[1] + ... + t[k]
TermSum(t, k) == IF k = 0 THEN Zero ELSE fadd(TermSum(t, k - 1), t[k])

\* The Hamiltonian of the notebook's text for one configuration,
\*   E = - sum_i a_i v_i - sum_j b_j h_j - sum_ij v_i w_ij h_j,
\* v and h rows with their bias unit at index 0, a_i = W[i, 0],
\* b_j = W[0, j] and w_ij = W[i, j] for i, j >= 1.
Hamiltonian(v, h, W) ==
  LET nv == Cols(v) - 1
      nh == Cols(h) - 1
      a == [i \in 1 .. nv |-> fmul(At(W, i, 0), At(v, 0, i))]
      b == [j \in 1 .. nh |-> fmul(At(W, 0, j), At(h, 0, j))]
      row(k) == ((k - 1) \div nh) + 1
      col(k) == ((k - 1) % nh) + 1
      w == [k \in 1 .. nv * nh |->
              fmul(fmul(At(v, 0, row(k)), At(W, row(k), col(k))), At(h, 0, col(k)))]
  IN  fsub(fsub(fsub(Zero, TermSum(a, nv)), TermSum(b, nh)), TermSum(w, nv * nh))

RECURSIVE SumTo(_, _)
\* The sum of the first k cells of a, in row-major order.
SumTo(a, k) ==
  IF k = 0 THEN Zero
  ELSE fadd(SumTo(a, k - 1), At(a, (k - 1) \div Cols(a), (k - 1) % Cols(a)))
\* np.sum(a)
np_sum(a) == SumTo(a, Rows(a) * Cols(a))

\* (a - b) ** 2, elementwise
SquaredDifference(a, b) ==
  LET c(i, j) == fmul(fsub(At(a, i, j), At(b, i, j)), fsub(At(a, i, j), At(b, i, j)))
  IN  Mat(Rows(a), Cols(a),
          [ij \in Idx(Rows(a), Cols(a)) |-> c(ij[1], ij[2])])

RECURSIVE Log2Floor(_, _)
\* The q with 2^q <= v / unit < 2^(q+1), for v > 0.
Log2Floor(v, unit) ==
  IF v < unit THEN Log2Floor(2 * v, unit) - 1
  ELSE IF v >= 2 * unit THEN Log2Floor(v, 2 * unit) + 1
  ELSE 0

\* np.log(x + 10**-8), the inverse of np_exp: nan below 0 (RuntimeWarning:
\* invalid value encountered in log), the large negative log of 10**-8 at 0.
np_log_eps(x) ==
  IF IsNaN(x) \/ x[1] < 0 THEN NaN
  ELSE IF x[1] = 0 THEN F(0 - 27 * Scale)
  ELSE LET q == Log2Floor(x[1], Scale)
           m == IF q >= 0 THEN x[1] \div Pow2(q) ELSE x[1] * Pow2(0 - q)
       IN  F(q * Scale + m - Scale)

RECURSIVE NanSumTo(_, _)
\* The sum of np_log_eps over the first k cells of a, nan counted as 0.
NanSumTo(a, k) ==
  IF k = 0 THEN Zero
  ELSE LET x == np_log_eps(At(a, (k - 1) \div Cols(a), (k - 1) % Cols(a)))
       IN  fadd(NanSumTo(a, k - 1), IF IsNaN(x) THEN Zero ELSE x)
\* np.nansum(np.log(a + 10**-8))
nansum_log(a) == NanSumTo(a, Rows(a) * Cols(a))

\* learn_rate = 0.1, to the grid
learn_rate == F(RDiv(Scale, 10))

\* The loop body of the from-scratch cell, in the three parts that begin
\* with the positive phase and end with a call of np.random.rand each.
\* #Clamp: the part that ends with the draw for P_h_state, and P_aso.
ScratchPositive(data, W, P_draws) ==
  LET P_h_act == np_dot(data, W)
      P_h == SetCol0(Logistic(P_h_act), One)
      P_h_state == Sample(P_h, P_draws)
      P_aso == np_dot(Transpose(data), P_h)
  IN  [P_h_act |-> P_h_act, P_h_state |-> P_h_state, P_aso |-> P_aso]

\* #Reconstruct, up to the draw for n_v_state.
ScratchReconstruct(P_h_state, W, v_draws) ==
  LET n_v_act == np_dot(P_h_state, Transpose(W))
      n_v == SetCol0(Logistic(n_v_act), One)
      n_v_state == Sample(n_v, v_draws)
  IN  [n_v |-> n_v, n_v_state |-> n_v_state]

\* The negative associations taken from the sampled hidden states n_h_state.
ScratchNegative_mut(data, W, rate, num_exp, P_h_act, P_aso, n_v, n_v_state, h_draws) ==
  LET n_h_state == Sample(Logistic(np_dot(n_v, W)), h_draws)
      n_aso == np_dot(Transpose(n_v), n_h_state)
      updated == Updated(W, Minus(P_aso, n_aso), rate, num_exp)
  IN  [W |-> updated,
       E01 |-> np_sum(Energy(n_v_state, n_h_state, W)),
       E11 |-> np_sum(Energy(n_v_state, n_h_state, updated)),
       error |-> np_sum(SquaredDifference(data, n_v)),
       En |-> nansum_log(P_h_act)]
\* The rest of the body: the draw for n_h_state, n_aso, E01, the update of
\* W, E11, and the values appended to Ers and Ens.
ScratchNegative(data, W, rate, num_exp, P_h_act, P_aso, n_v, n_v_state, h_draws) ==
  LET n_h_act == np_dot(n_v, W)
      n_h == Logistic(n_h_act)
      n_h_state == Sample(n_h, h_draws)
      n_aso == np_dot(Transpose(n_v), n_h)
      E01 == np_sum(Energy(n_v_state, n_h_state, W))
      updated == Updated(W, Minus(P_aso, n_aso), rate, num_exp)
      E11 == np_sum(Energy(n_v_state, n_h_state, updated))
      error == np_sum(SquaredDifference(data, n_v))
  IN  [W |-> updated, E01 |-> E01, E11 |-> E11, error |-> error,
       En |-> nansum_log(P_h_act)]

Next ==
  \/ \E nv \in (0 - 1) .. MaxVisible, nh \in (0 - 1) .. MaxHidden : Construct(nv, nh)
  \/ \E data \in Inputs, max_epochs \in 0 .. MaxEpochs, learning_rate \in LearningRates :
       TrainCall(data, max_epochs, learning_rate)
  \/ TrainEpoch
  \/ TrainReturn
  \/ \E data \in Inputs : RunVisible(data)
  \/ \E data \in Inputs : RunHidden(data)
  \/ \E num_samples \in 0 .. MaxSamples : DaydreamCall(num_samples)
  \/ DaydreamStep
  \/ DaydreamReturn
  \/ Discard

Spec == Init /\ [][Next]_vars

\* A call that has begun runs on: the interpreter executes the next
\* iteration, and the return, of the loop it is in.
FairSpec ==
  /\ Spec
  /\ WF_frame(TrainEpoch) /\ WF_frame(TrainReturn)
  /\ WF_frame(DaydreamStep) /\ WF_frame(DaydreamReturn)

\* ------------------------------------- the from-scratch loop beside train
\* The from-scratch cell run on data_input from bias-augmented weights W,
\* and an RBM whose weights are the same matrix, about to be trained on the
\* same array with the same learning rate and number of epochs.  frame
\* holds the variables of the cell, weights and trained (the epochs of
\* train done) belong to the RBM.
ScratchStart(nv, nh, data_input, W, max_ep, rate) ==
  /\ num_visible = nv
  /\ num_hidden = nh
  /\ weights = W
  /\ trained = 0
  /\ arg = Array(data_input)
  /\ ret = NoValue
  /\ raised = "none"
  /\ np_random = nv * nh
  /\ called = [op |-> "train", data |-> data_input, max_epochs |-> max_ep,
               learning_rate |-> rate]
  /\ frame = [op |-> "scratch",
              data |-> np_insert_col(data_input, One),
              num_exp |-> Rows(data_input),
              max_ep |-> max_ep,
              rate |-> rate,
              ep |-> 0,
              at |-> "clamp",
              W |-> W,
              started |-> W,
              P_draws |-> NoArray,
              P_h_act |-> NoArray, P_h_state |-> NoArray, P_aso |-> NoArray,
              n_v |-> NoArray, n_v_state |-> NoArray,
              E01s |-> <<>>, E11s |-> <<>>, Ers |-> <<>>, Ens |-> <<>>]

\* W = np.random.rand(num_vis, num_hid) with the bias row and column
\* inserted, data_input any 0/1 array of num_vis columns.
ScratchInit ==
  \E nv \in 1 .. MaxVisible, nh \in 1 .. MaxHidden, num_exp \in 0 .. MaxExamples :
    \E data_input \in BinaryArrays(num_exp, nv), W \in Rand(nv, nh),
       max_ep \in 1 .. MaxEpochs, rate \in {learn_rate} :
      /\ num_exp * nv <= MaxCells
      /\ Charge(data_input, max_ep) <= MaxWork
      /\ ScratchStart(nv, nh, data_input,
                      np_insert_col(np_insert_row(W, Zero), Zero), max_ep, rate)

\* The positive phase of an iteration of the from-scratch loop, begun when
\* train is level with the loop.
ScratchClamp ==
  /\ frame.op = "scratch" /\ frame.at = "clamp"
  /\ frame.ep < frame.max_ep
  /\ trained = frame.ep
  /\ \E P_draws \in Rand(frame.num_exp, num_hidden + 1) :
       LET e == ScratchPositive(frame.data, frame.W, P_draws)
       IN  frame' = [frame EXCEPT !.at = "reconstruct",
                                 !.P_draws = Array(P_draws),
                                 !.P_h_act = Array(e.P_h_act),
                                 !.P_h_state = Array(e.P_h_state),
                                 !.P_aso = Array(e.P_aso)]
  /\ np_random' = np_random + frame.num_exp * (num_hidden + 1)
  /\ UNCHANGED <<self, arg, ret, raised, trained, called>>

\* The reconstruction and the sample n_v_state.
ScratchSampleVisible ==
  /\ frame.op = "scratch" /\ frame.at = "reconstruct"
  /\ \E v_draws \in Rand(frame.num_exp, num_visible + 1) :
       LET e == ScratchReconstruct(frame.P_h_state.a, frame.W, v_draws)
       IN  frame' = [frame EXCEPT !.at = "update",
                                 !.n_v = Array(e.n_v),
                                 !.n_v_state = Array(e.n_v_state)]
  /\ np_random' = np_random + frame.num_exp * (num_visible + 1)
  /\ UNCHANGED <<self, arg, ret, raised, trained, called>>

\* The sample n_h_state, the update of W and the diagnostics: the end of
\* the iteration.  The arrays of the iteration are not kept: the next
\* iteration assigns each of them before it reads it.
ScratchUpdate ==
  /\ frame.op = "scratch" /\ frame.at = "update"
  /\ \E h_draws \in Rand(frame.num_exp, num_hidden + 1) :
       LET e == ScratchNegative(frame.data, frame.W, frame.rate, frame.num_exp,
                                frame.P_h_act.a, frame.P_aso.a,
                                frame.n_v.a, frame.n_v_state.a, h_draws)
       IN  frame' = [frame EXCEPT !.at = "clamp",
                                 !.ep = @ + 1,
                                 !.W = e.W,
                                 !.P_h_act = NoArray,
                                 !.P_h_state = NoArray,
                                 !.P_aso = NoArray,
                                 !.n_v = NoArray,
                                 !.n_v_state = NoArray,
                                 !.E01s = Append(@, e.E01),
                                 !.E11s = Append(@, e.E11),
                                 !.Ers = Append(@, e.error),
                                 !.Ens = Append(@, e.En)]
  /\ np_random' = np_random + frame.num_exp * (num_hidden + 1)
  /\ UNCHANGED <<self, arg, ret, raised, trained, called>>

\* The iteration of train that follows, np.random.rand giving it the draws
\* the from-scratch iteration had for its positive-phase hidden sample.
ScratchTrainEpoch ==
  /\ frame.op = "scratch"
  /\ trained < frame.ep
  /\ weights' = Epoch(frame.data, weights, called.learning_rate,
                      Rows(called.data), frame.P_draws.a).weights
  /\ trained' = trained + 1
  /\ frame' = [frame EXCEPT !.P_draws = NoArray]
  /\ UNCHANGED <<num_visible, num_hidden, arg, ret, raised, called, np_random>>

ScratchNext == ScratchClamp \/ ScratchSampleVisible \/ ScratchUpdate \/ ScratchTrainEpoch

ScratchSpec == ScratchInit /\ [][ScratchNext]_vars

\* ----------------------------------------------------------------- claims
IsBinary(a) == \A ij \in DOMAIN a.val : a.val[ij] \in Binary
Returned(op) == frame = Ended /\ called.op = op /\ raised = "none"

\* C1: right after RBM(num_visible, num_hidden) with both arguments >= 1 the
\* weights have shape (num_visible + 1, num_hidden + 1) and every entry of
\* row 0 and of column 0 is 0.
C1_ConstructedShapeAndZeroBias ==
  (Returned("RBM") /\ called.num_visible >= 1 /\ called.num_hidden >= 1) =>
    /\ weights.shape = <<called.num_visible + 1, called.num_hidden + 1>>
    /\ \A j \in 0 .. called.num_hidden : At(weights, 0, j) = Zero
    /\ \A i \in 0 .. called.num_visible : At(weights, i, 0) = Zero

\* C1 witness: a construction with 2 visible units and 1 hidden unit that
\* drew a non-zero weight.
C1_Witness ==
  /\ Returned("RBM")
  /\ called.num_visible = 2 /\ called.num_hidden = 1
  /\ \E i \in 1 .. 2 : At(weights, i, 1) # Zero

\* C2: run_visible on an array of num_visible columns returns an array of
\* shape (num_examples, num_hidden) with every entry 0 or 1, for every
\* reachable weight matrix and every draw.
C2_RunVisibleBinary ==
  (frame = Ended /\ called.op = "run_visible" /\ Cols(called.data) = num_visible) =>
    /\ raised = "none"
    /\ ret.kind = "array"
    /\ ret.a.shape = <<Rows(called.data), num_hidden>>
    /\ IsBinary(ret.a)

\* C2 witness: run_visible on two examples after training, one hidden unit
\* sampled on and the other off.
C2_Witness ==
  /\ Returned("run_visible")
  /\ trained > 0
  /\ num_visible = 2 /\ num_hidden = 1
  /\ Rows(called.data) = 2 /\ Cols(called.data) = 2
  /\ At(ret.a, 0, 0) = One /\ At(ret.a, 1, 0) = Zero

\* C3: run_hidden on an array of num_hidden columns returns an array of
\* shape (num_examples, num_visible) with every entry 0 or 1, for every
\* reachable weight matrix and every draw.
C3_RunHiddenBinary ==
  (frame = Ended /\ called.op = "run_hidden" /\ Cols(called.data) = num_hidden) =>
    /\ raised = "none"
    /\ ret.kind = "array"
    /\ ret.a.shape = <<Rows(called.data), num_visible>>
    /\ IsBinary(ret.a)

\* C3 witness: run_hidden on two examples after training, with a visible
\* unit sampled on and one sampled off.
C3_Witness ==
  /\ Returned("run_hidden")
  /\ trained > 0
  /\ num_visible = 2 /\ num_hidden = 1
  /\ Rows(called.data) = 2 /\ Cols(called.data) = 1
  /\ At(ret.a, 0, 0) = One /\ At(ret.a, 1, 1) = Zero

C5_TrainKeepsShape ==
  weights.shape = <<num_visible + 1, num_hidden + 1>>

\* C5 witness: a train call that has run two epochs and changed the weights.
C5_Witness ==
  /\ frame.op = "train"
  /\ frame.updates = 2
  /\ weights # frame.before

\* C6: a train call with learning_rate = 0 leaves every weight as it was
\* when the call began, whatever the data, the epochs and the draws.
C6_ZeroRateKeepsWeights ==
  (frame.op = "train" /\ frame.learning_rate = Zero) => weights = frame.before

\* C7: weights[0][0] is 0 in every state reached by construction and train
\* calls.  Stated for the states where weights[0][0] is a number, so that a
\* violation does not rest on the nan of C6.
C7_CornerAlwaysZero ==
  ~IsNaN(At(weights, 0, 0)) => At(weights, 0, 0) = Zero

\* C8: train, run_visible and run_hidden leave the caller's array as it was
\* passed: the same shape, with no bias column, and the same entries.
C8_CallerArrayUntouched ==
  called.op \in {"train", "run_visible", "run_hidden"} => arg = Array(called.data)

\* C8 witness: train has returned after an epoch on an array whose first
\* column holds a 0, which a bias written in place would have overwritten.
C8_Witness ==
  /\ Returned("train")
  /\ called.max_epochs >= 1
  /\ Rows(called.data) >= 1 /\ Cols(called.data) = num_visible /\ num_visible >= 1
  /\ At(called.data, 0, 0) = Zero
  /\ arg.a.shape = <<Rows(called.data), num_visible>>

\* C9: in daydream, the visible vector every step computes the hidden
\* activations from has its bias component, index 0, equal to 1.
C9_DaydreamVisibleBiasClamped ==
  (frame.op = "daydream" /\ frame.visible.kind = "array") =>
    At(frame.visible.a, 0, 0) = One

\* C10: train on an array of num_visible columns runs exactly max_epochs
\* iterations, one write of the weights in each, then returns None: it
\* never ends early, never raises, never runs longer, and it does end.
C10_TrainStep ==
  (frame.op = "train" /\ Cols(called.data) = num_visible) =>
    /\ frame.updates = frame.epoch
    /\ frame.epoch <= frame.max_epochs
    /\ \/ /\ frame'.op = "train"
          /\ frame'.epoch = frame.epoch + 1
          /\ frame'.updates = frame.updates + 1
          /\ frame'.epoch <= frame.max_epochs
       \/ /\ frame' = Ended
          /\ frame.updates = called.max_epochs
          /\ raised' = "none"
          /\ ret' = None
Mismatched(c) ==
  \/ c.op \in {"train", "run_visible"} /\ Cols(c.data) # num_visible
  \/ c.op = "run_hidden" /\ Cols(c.data) # num_hidden

\* C11: a train or run_visible call on an array whose column count differs
\* from num_visible, or a run_hidden call on one whose column count differs
\* from num_hidden, ends in an error, returns nothing, and no step of it
\* changes the weights.
C11_MismatchStep ==
  Mismatched(called') =>
    /\ weights' = weights
    /\ (frame # Ended /\ frame' = Ended) => (raised' # "none" /\ ret' = NoValue)
C11_MismatchRaises == [][C11_MismatchStep]_vars

\* C12: RBM(num_visible, num_hidden) with num_visible <= 0 or
\* num_hidden <= 0 ends in an error and produces no model.
C12_NonPositiveSizeFails ==
  (frame = Ended /\ called.op = "RBM"
     /\ (called.num_visible <= 0 \/ called.num_hidden <= 0)) => raised # "none"

\* C13: an epoch of train leaves weights = old + learning_rate * (P - N) /
\* num_examples in every cell, where P = data^T . pos_hidden_probs,
\* N = neg_visible_probs^T . neg_hidden_probs, the reconstruction comes from
\* the sampled hidden states, and every quantity is computed from the
\* weights the epoch began with; the epoch is one write of the weights.
C13_EpochStep ==
  (frame.op = "train" /\ frame'.op = "train" /\ frame'.epoch = frame.epoch + 1) =>
    LET data == frame.data
        old == weights
        pos_hidden_probs == SetCol0(Logistic(np_dot(data, old)), One)
        P == np_dot(Transpose(data), pos_hidden_probs)
        sampled == frame'.pos_hidden_states.a
        neg_visible_probs == SetCol0(Logistic(np_dot(sampled, Transpose(old))), One)
        neg_hidden_probs == Logistic(np_dot(neg_visible_probs, old))
        N == np_dot(Transpose(neg_visible_probs), neg_hidden_probs)
    IN  /\ IsBinary(sampled)
        /\ frame'.neg_visible_probs.a = neg_visible_probs
        /\ frame'.updates = frame.updates + 1
        /\ weights'.shape = old.shape
        /\ \A i \in 0 .. num_visible, j \in 0 .. num_hidden :
             At(weights', i, j) =
               fadd(At(old, i, j),
                    fmul(frame.learning_rate,
                         fdiv(fsub(At(P, i, j), At(N, i, j)), frame.num_examples)))
C13_UpdateFormula == [][C13_EpochStep]_vars

\* C13 witness: one epoch on two examples at learning rate 1 has moved a
\* weight between a visible and a hidden unit to another finite value.
C13_Witness ==
  /\ frame.op = "train"
  /\ frame.updates = 1
  /\ frame.learning_rate = One
  /\ frame.num_examples = 2
  /\ num_visible >= 1 /\ num_hidden = 1
  /\ ~IsNaN(At(weights, 1, 1))
  /\ At(weights, 1, 1) # At(frame.before, 1, 1)

\* The rows one hidden-then-visible sampling step can produce from the
\* visible row `from` under the weights w, over every outcome of the draws.
GibbsOutcomes(from, w) ==
  {Sample(Logistic(np_dot(SetCol0(Sample(Logistic(np_dot(from, w)), hd), One),
                          Transpose(w))), vd) :
     hd \in Rand(1, Cols(w)), vd \in Rand(1, Rows(w))}

\* C14: daydream is one chain.  Every step of its loop reads exactly the
\* stored row i-1, writes row i with the outcome of one hidden-then-visible
\* sampling step from that row, and leaves every other row, row 0 with the
\* random initialisation included, as it was; the rows returned are the
\* rows stored.
C14_ChainStep ==
  /\ (frame = Idle /\ frame'.op = "daydream") =>
       /\ frame'.i = 1
       /\ \A k \in 1 .. frame'.num_samples - 1 :
            Row(frame'.samples, k) = np_ones(1, num_visible + 1)
  /\ (frame.op = "daydream" /\ frame'.op = "daydream") =>
       LET i == frame.i
           previous == Row(frame.samples, i - 1)
       IN  /\ frame'.i = i + 1
           /\ frame'.visible = Array(previous)
           /\ Row(frame'.samples, i) \in GibbsOutcomes(previous, weights)
           /\ \A k \in 0 .. frame.num_samples - 1 :
                k # i => Row(frame'.samples, k) = Row(frame.samples, k)
  /\ (frame.op = "daydream" /\ frame' = Ended) =>
       /\ frame.i = frame.num_samples
       /\ ret' = Array(DropCol0(frame.samples))
C14_DaydreamSingleChain == [][C14_ChainStep]_vars

\* C14 witness: daydream(3) has filled its rows from a row 0 that holds a
\* value strictly between 0 and 1, and rows 1 and 2 differ from each other
\* and from row 0.
C14_Witness ==
  /\ frame.op = "daydream"
  /\ frame.num_samples = 3 /\ frame.i = 3
  /\ num_visible = 2 /\ num_hidden = 1
  /\ At(frame.samples, 0, 1) \notin Binary
  /\ Row(frame.samples, 1) # Row(frame.samples, 2)
  /\ Row(frame.samples, 1) # Row(frame.samples, 0)
  /\ frame.visible = Array(Row(frame.samples, 1))

\* C15: after every epoch of train, for every example, column 0 of
\* pos_hidden_states (the sampled hidden bias) is 1 and column 0 of
\* neg_visible_probs (the reconstructed visible bias) is 1, whatever the
\* draws and the weights.
C15_TrainBiasFixed ==
  (frame.op = "train" /\ frame.updates >= 1) =>
    /\ frame.pos_hidden_states.kind = "array"
    /\ frame.neg_visible_probs.kind = "array"
    /\ \A i \in 0 .. frame.num_examples - 1 :
         /\ At(frame.pos_hidden_states.a, i, 0) = One
         /\ At(frame.neg_visible_probs.a, i, 0) = One

\* C15 witness: an epoch on two examples with every draw for the hidden
\* units at its largest: a hidden unit was sampled off while the bias state
\* is on, and a visible probability other than the bias is below 1.
C15_Witness ==
  /\ frame.op = "train"
  /\ frame.updates >= 1
  /\ frame.num_examples = 2
  /\ num_visible = 2 /\ num_hidden = 1
  /\ At(frame.pos_hidden_states.a, 0, 1) = Zero
  /\ At(frame.pos_hidden_states.a, 1, 0) = One
  /\ At(frame.neg_visible_probs.a, 1, 1) # One
  /\ At(frame.neg_visible_probs.a, 1, 0) = One

\* C16: no step of run_visible, run_hidden or daydream changes the weights,
\* whatever the input and the draws; a step that changes them is an epoch
\* of train (or the construction of a new model).
C16_InferenceStep ==
  /\ called'.op \in {"run_visible", "run_hidden", "daydream"} => weights' = weights
  /\ weights' # weights =>
       \/ frame.op = "train" /\ frame'.op = "train" /\ frame'.epoch = frame.epoch + 1
       \/ called'.op = "RBM" /\ frame = Idle
C16_InferenceKeepsWeights == [][C16_InferenceStep]_vars

\* C16 witness: run_hidden has returned two rows on a trained model of two
\* visible units whose weights are finite and no longer the initial ones.
C16_Witness ==
  /\ Returned("run_hidden")
  /\ ret.kind = "array" /\ Rows(ret.a) = 2
  /\ trained > 0
  /\ num_visible = 2 /\ num_hidden = 1
  /\ weights # RBM_init_weights(num_visible, num_hidden)
  /\ \A ij \in DOMAIN weights.val : ~IsNaN(weights.val[ij])

\* C17: whenever the from-scratch loop and train have run the same number
\* of epochs from the same weights on the same data with the same draws for
\* the positive-phase hidden sample, their weights are identical, whatever
\* the draws for n_v_state and n_h_state and the diagnostics were.
C17_ScratchEqualsTrain ==
  (frame.op = "scratch" /\ trained = frame.ep) => frame.W = weights

\* C17 witness: both have run two epochs, the weights have moved to finite
\* values other than the initial ones, and the energies recorded before and
\* after the last update differ.
C17_Witness ==
  /\ frame.op = "scratch"
  /\ frame.ep = 2 /\ trained = 2
  /\ frame.W # frame.started
  /\ \A ij \in DOMAIN frame.W.val : ~IsNaN(frame.W.val[ij])
  /\ frame.E01s[2] # frame.E11s[2]
  /\ frame.W = weights

\* C18: for the weights W of the from-scratch cell, whenever they are
\* finite, and every binary v and h with bias unit 1 at index 0,
\* Energy(v, h, W) is the Hamiltonian of the notebook's text.
C18_EnergyIsHamiltonian ==
  (frame.op = "scratch" /\ \A ij \in DOMAIN frame.W.val : ~IsNaN(frame.W.val[ij])) =>
    \A v \in BinaryArrays(1, num_visible + 1), h \in BinaryArrays(1, num_hidden + 1) :
      (At(v, 0, 0) = One /\ At(h, 0, 0) = One) =>
        At(Energy(v, h, frame.W), 0, 0) = Hamiltonian(v, h, frame.W)

\* C19: a construction takes nothing from the global stream np.random, and
\* the weights it yields are a function of (num_visible, num_hidden) alone:
\* the same after every history of calls and global draws.
C19_ConstructStep ==
  (frame = Idle /\ called'.op = "RBM") =>
    /\ np_random' = np_random
    /\ raised' = "none" =>
         weights' = RBM_init_weights(called'.num_visible, called'.num_hidden)
C19_ConstructionDeterministic == [][C19_ConstructStep]_vars

\* C19 witness: a model of two visible units and one hidden unit, one of
\* its weights not 0, has been constructed after a call that took values
\* from the global stream.
C19_Witness ==
  /\ Returned("RBM")
  /\ np_random > 0
  /\ called.num_visible = 2 /\ called.num_hidden = 1
  /\ \E i \in 1 .. 2 : At(weights, i, 1) # Zero
  /\ weights = RBM_init_weights(2, 1)

====
